---- MODULE Spec2Model ----
(***************************************************************************)
(* A model of plane-cli's request translation: path-template substitution, *)
(* base-URL splitting and joining, query parsing and assembly, body        *)
(* resolution, path-parameter collection, and the run() and                *)
(* handle_request() pipelines of src/main.rs.                              *)
(*                                                                         *)
(* A Rust string is a sequence of one-character strings.  Rust indexes     *)
(* from 0; Slice(s, from, to) is Rust's s[from..to].                       *)
(***************************************************************************)
EXTENDS Integers, Sequences, FiniteSets, TLC

VARIABLES
    template,     \* build_path: the operation's path template
    params,       \* build_path: the bindings, a function from names to values
    path,         \* build_path: its Result
    base_url,     \* split_base_url: the PLANE_BASE_URL override
    default_path, \* split_base_url: the command tree's base_path
    split,        \* split_base_url: its Result, Ok(<<api_url, base_path>>)
    join_args,    \* join_url: its arguments <<base, base_path, path>>
    joined,       \* join_url: its Result
    query_input,  \* parse_query_pair: one --query value
    query_pair,   \* parse_query_pair: its Result, Ok(<<key, value>>)
    body_json,    \* read_body: --body-json, an Option
    body_file,    \* read_body: --body-file, an Option
    files,        \* read_body: the file system, a path's text as an Option
    file_reads,   \* read_body: the fs::read_to_string calls made
    body,         \* read_body: its Result, Ok(Option of a JSON value)
    op_params,    \* collect_path_params: the operation's Params
    matches,      \* collect_path_params: the CLI values by Param name
    plane_workspace, \* collect_path_params: PLANE_WORKSPACE, an Option
    collected,    \* collect_path_params: its Result, Ok(bindings)
    query_flags,  \* build_query_params: the query flags of the ArgMatches
    query_params, \* build_query_params: its Result, Ok(list of entries)
    pc,           \* run, handle_request: the statement the invocation has reached
    env,          \* run: the PLANE_* environment variables, each an Option
    cli,          \* run: the parsed command line (clap's ArgMatches)
    locals,       \* run: its local variables, Pending or None until set
    requests,     \* run: the HTTP requests sent so far
    stdout,       \* run: the lines written to standard output so far
    result        \* run: its Result once it has returned

pathVars == <<template, params, path>>
splitVars == <<base_url, default_path, split>>
joinVars == <<join_args, joined>>
queryVars == <<query_input, query_pair>>
bodyVars == <<body_json, body_file, files, file_reads, body>>
collectVars == <<op_params, matches, plane_workspace, collected>>
queryParamsVars == <<query_flags, query_params>>

runVars == <<pc, env, cli, locals, requests, stdout, result>>

vars ==
    <<pathVars, splitVars, joinVars, queryVars, bodyVars, collectVars,
      queryParamsVars, runVars>>

----------------------------------------------------------------------------
(* Bounds of the model. *)

MaxTemplateLen == 5
MaxUrlLen == 6
MaxJoinLen == 3
MaxQueryLen == 5
MaxBodyLen == 2
MaxParams == 2
MaxQueryArgs == 2

----------------------------------------------------------------------------
(* Results: Ok(v) is Rust's Ok(v), Err(msg, arg) an anyhow error with the   *)
(* message msg about arg, Pending a call that has not returned.            *)

Ok(v) == [kind |-> "ok", val |-> v]
Err(msg, arg) == [kind |-> msg, val |-> arg]
Pending == [kind |-> "pending", val |-> <<>>]

NONE == -1

\* Rust's Option: None is the empty sequence, Some(x) the sequence of x.
None == <<>>
Some(x) == <<x>>
IsSome(o) == o # <<>>
Unwrap(o) == o[1]

Min(S) == CHOOSE x \in S : \A y \in S : x <= y
Max(S) == CHOOSE x \in S : \A y \in S : x >= y

Slice(s, from, to) == SubSeq(s, from + 1, to)

Contains(s, c) == \E i \in 1..Len(s) : s[i] = c

StringsUpTo(alphabet, n) == UNION {[1..k -> alphabet] : k \in 0..n}

----------------------------------------------------------------------------
(* build_path and its helpers, src/main.rs 374-401. *)

find_byte(haystack, needle, start) ==
    LET hits == {idx \in start..(Len(haystack) - 1) : haystack[idx + 1] = needle}
    IN  IF hits = {} THEN NONE ELSE Min(hits)

\* token.split(':'): the segments between the colons, at least one.
RECURSIVE split_colon(_)
split_colon(token) ==
    LET idx == find_byte(token, ":", 0)
    IN  IF idx = NONE THEN <<token>>
        ELSE <<Slice(token, 0, idx)>> \o split_colon(Slice(token, idx + 1, Len(token)))

\* A plausible slip: the category (segment 0) is taken for the name.
token_name_first(token) == split_colon(token)[1]

\* token.split(':').nth(1).unwrap_or(token)
token_name(token) ==
    LET segments == split_colon(token)
    IN  IF Len(segments) >= 2 THEN segments[2] ELSE token

\* A plausible slip: the cursor stops on the '>' instead of after it.
build_path_cursor_on_close(end) == end

build_path_next_cursor(end) == end + 1

\* A plausible slip: a missing name is replaced by nothing instead of failing.
build_path_lookup_lenient(bindings, name) ==
    IF name \in DOMAIN bindings THEN Ok(bindings[name]) ELSE Ok(<<>>)

build_path_lookup(bindings, name) ==
    IF name \in DOMAIN bindings THEN Ok(bindings[name]) ELSE Err("missing value", name)

RECURSIVE build_path_loop(_, _, _, _)
build_path_loop(tmpl, bindings, out, cursor) ==
    LET start == find_byte(tmpl, "<", cursor)
    IN  IF start = NONE THEN Ok(out \o Slice(tmpl, cursor, Len(tmpl)))
        ELSE LET end == find_byte(tmpl, ">", start + 1)
             IN  IF end = NONE THEN Err("invalid path template", <<>>)
                 ELSE LET token == Slice(tmpl, start + 1, end)
                          name  == token_name(token)
                          value == build_path_lookup(bindings, name)
                      IN  IF value.kind # "ok" THEN value
                          ELSE build_path_loop(tmpl, bindings,
                                   out \o Slice(tmpl, cursor, start) \o value.val,
                                   build_path_next_cursor(end))

build_path(tmpl, bindings) == build_path_loop(tmpl, bindings, <<>>, 0)

----------------------------------------------------------------------------
(* Rust's str trimming and searching, as split_base_url and join_url use   *)
(* them.  The space stands for every whitespace character.                 *)

IsWhitespace(c) == c = " "

RECURSIVE trim_start_matches(_, _)
trim_start_matches(s, c) ==
    IF s # <<>> /\ Head(s) = c THEN trim_start_matches(Tail(s), c) ELSE s

RECURSIVE trim_end_matches(_, _)
trim_end_matches(s, c) ==
    IF s # <<>> /\ s[Len(s)] = c
    THEN trim_end_matches(SubSeq(s, 1, Len(s) - 1), c)
    ELSE s

trim_matches(s, c) == trim_end_matches(trim_start_matches(s, c), c)

trim(s) == trim_matches(s, " ")

starts_with(s, prefix) ==
    Len(s) >= Len(prefix) /\ SubSeq(s, 1, Len(prefix)) = prefix

\* str::find(pat): the index of the first occurrence of pat, or NONE.
find_str(s, pat) ==
    LET hits == {idx \in 0..(Len(s) - Len(pat)) : Slice(s, idx, idx + Len(pat)) = pat}
    IN  IF hits = {} THEN NONE ELSE Min(hits)

SchemeSep == <<":", "/", "/">>

----------------------------------------------------------------------------
(* split_base_url, src/main.rs 516-549. *)

\* A plausible slip: only the whitespace is trimmed, trailing '/' kept.
split_trimmed_keep_slash(url) == trim(url)

\* base_url.trim().trim_end_matches('/')
split_trimmed(url) == trim_end_matches(trim(url), "/")

\* A plausible slip: the search for the path starts inside the separator.
split_path_search_inside(scheme_idx) == scheme_idx + 1

\* Where the search for the path's '/' starts: after the "://".
split_path_search_from(scheme_idx) == scheme_idx + 3

split_base_url(url, default) ==
    LET trimmed == split_trimmed(url)
    IN  IF trimmed = <<>> THEN Err("PLANE_BASE_URL empty", <<>>)
        ELSE LET scheme_idx == find_str(trimmed, SchemeSep)
             IN  IF scheme_idx = NONE
                 THEN Err("PLANE_BASE_URL must include scheme", <<>>)
                 ELSE LET from     == split_path_search_from(scheme_idx)
                          rel      == find_byte(Slice(trimmed, from, Len(trimmed)), "/", 0)
                          path_idx == IF rel = NONE THEN NONE ELSE rel + from
                          api_url  == IF path_idx # NONE
                                      THEN Slice(trimmed, 0, path_idx)
                                      ELSE trimmed
                          taken    == Slice(trimmed, path_idx, Len(trimmed))
                          filled   == IF taken = <<>> THEN default ELSE taken
                          slashed  == IF ~starts_with(filled, <<"/">>)
                                      THEN <<"/">> \o filled
                                      ELSE filled
                          base_path == IF path_idx # NONE THEN slashed ELSE default
                      IN  Ok(<<api_url, base_path>>)

----------------------------------------------------------------------------
(* join_url, src/main.rs 403-415. *)

\* A plausible slip: the path loses its trailing slashes too.
join_trim_path_both(p) == trim_matches(p, "/")

\* path.trim_start_matches('/')
join_trim_path(p) == trim_start_matches(p, "/")

join_url(base, base_path, p) ==
    LET b  == trim_end_matches(base, "/")
        bp == trim_matches(base_path, "/")
        pp == join_trim_path(p)
    IN  IF bp = <<>> THEN b \o <<"/">> \o pp
        ELSE IF pp = <<>> THEN b \o <<"/">> \o bp
        ELSE b \o <<"/">> \o bp \o <<"/">> \o pp

----------------------------------------------------------------------------
(* parse_query_pair, src/main.rs 448-456. *)

\* A plausible slip: the input is split on its last '=' (rsplitn).
query_split_last(input) ==
    LET hits == {idx \in 0..(Len(input) - 1) : input[idx + 1] = "="}
    IN  IF hits = {} THEN NONE ELSE Max(hits)

\* input.splitn(2, '='): where the one split falls, NONE without a '='.
query_split_at(input) == find_byte(input, "=", 0)

parse_query_pair(input) ==
    LET at     == query_split_at(input)
        first  == IF at = NONE THEN input ELSE Slice(input, 0, at)
        second == IF at = NONE THEN <<>> ELSE Slice(input, at + 1, Len(input))
        key    == trim(first)
        value  == trim(second)
    IN  IF key = <<>> \/ value = <<>>
        THEN Err("invalid query param", input)
        ELSE Ok(<<key, value>>)

----------------------------------------------------------------------------
(* read_body, src/main.rs 458-478.  serde_json::from_str is modelled on    *)
(* the JSON texts made of the digit 1, braces and spaces: a number or an   *)
(* empty object, with whitespace around it.                                *)

json_from_str(raw) ==
    LET t == trim(raw)
    IN  IF t # <<>> /\ \A i \in 1..Len(t) : t[i] = "1"
        THEN Ok([type |-> "number", digits |-> Len(t)])
        ELSE IF /\ Len(t) >= 2
                /\ t[1] = "{"
                /\ t[Len(t)] = "}"
                /\ \A i \in 2..(Len(t) - 1) : t[i] = " "
        THEN Ok([type |-> "object", digits |-> 0])
        ELSE Err("invalid JSON", raw)

\* fs::read_to_string(path)
read_to_string(fs, file) ==
    IF file \in DOMAIN fs /\ IsSome(fs[file])
    THEN Ok(Unwrap(fs[file]))
    ELSE Err("read body file", file)

\* A plausible slip: the conflict is not detected, --body-json wins.
read_body_conflict_ignored(json, file) == FALSE

\* body_json.is_some() && body_file.is_some()
read_body_conflict(json, file) == IsSome(json) /\ IsSome(file)

\* The Result of read_body and the number of files it read.
read_body(json, file, fs) ==
    IF read_body_conflict(json, file)
    THEN [result |-> Err("use only one of --body-json or --body-file", <<>>),
          reads |-> 0]
    ELSE IF IsSome(json)
    THEN LET value == json_from_str(Unwrap(json))
         IN  [result |-> IF value.kind = "ok" THEN Ok(Some(value.val))
                         ELSE Err("invalid JSON body", Unwrap(json)),
              reads |-> 0]
    ELSE IF IsSome(file)
    THEN LET raw == read_to_string(fs, Unwrap(file))
         IN  IF raw.kind # "ok" THEN [result |-> raw, reads |-> 1]
             ELSE LET value == json_from_str(raw.val)
                  IN  [result |-> IF value.kind = "ok" THEN Ok(Some(value.val))
                                  ELSE Err("invalid JSON body file", raw.val),
                       reads |-> 1]
    ELSE [result |-> Ok(None), reads |-> 0]

----------------------------------------------------------------------------
(* collect_path_params and is_workspace_param, src/main.rs 357-372. *)

Slug == <<"s", "l", "u", "g">>
Workspace == <<"w", "o", "r", "k", "s", "p", "a", "c", "e">>
WorkspaceSnake == Workspace \o <<"_">> \o Slug
WorkspaceCamel == Workspace \o <<"S", "l", "u", "g">>

\* A plausible slip: the spelling is matched without regard to case.
is_workspace_param_any_case(name) ==
    name \in {Slug, Workspace, WorkspaceSnake, WorkspaceCamel,
              <<"S", "l", "u", "g">>}

is_workspace_param(name) ==
    name \in {Slug, Workspace, WorkspaceSnake, WorkspaceCamel}

RECURSIVE collect_loop(_, _, _, _, _)
collect_loop(ps, i, given_by, workspace, bound) ==
    IF i > Len(ps) THEN Ok(bound)
    ELSE LET param  == ps[i]
             given  == IF param.name \in DOMAIN given_by
                       THEN Some(given_by[param.name])
                       ELSE None
             value  == IF ~IsSome(given) /\ is_workspace_param(param.name)
                       THEN workspace
                       ELSE given
         IN  IF ~IsSome(value) THEN Err("missing required argument", param.flag)
             ELSE collect_loop(ps, i + 1, given_by, workspace,
                      [n \in DOMAIN bound \cup {param.name} |->
                          IF n = param.name THEN Unwrap(value) ELSE bound[n]])

collect_path_params(ps, given_by, workspace) ==
    collect_loop(ps, 1, given_by, workspace, <<>>)

----------------------------------------------------------------------------
(* build_query_params, src/main.rs 417-446.  m holds the parsed global     *)
(* flags: query and expand as sequences, fields, per_page and cursor as    *)
(* Options.                                                                *)

FieldsKey == <<"f", "i", "e", "l", "d", "s">>
ExpandKey == <<"e", "x", "p", "a", "n", "d">>
PerPageKey == <<"p", "e", "r", "_", "p", "a", "g", "e">>
CursorKey == <<"c", "u", "r", "s", "o", "r">>

\* A plausible slip: an invalid pair is dropped and the loop goes on.
RECURSIVE query_loop_skips_invalid(_, _, _)
query_loop_skips_invalid(values, i, acc) ==
    IF i > Len(values) THEN Ok(acc)
    ELSE LET pair == parse_query_pair(values[i])
         IN  query_loop_skips_invalid(values, i + 1,
                 IF pair.kind # "ok" THEN acc ELSE Append(acc, pair.val))

RECURSIVE query_loop(_, _, _)
query_loop(values, i, acc) ==
    IF i > Len(values) THEN Ok(acc)
    ELSE LET pair == parse_query_pair(values[i])
         IN  IF pair.kind # "ok" THEN pair
             ELSE query_loop(values, i + 1, Append(acc, pair.val))

\* A plausible slip: the two pagination entries pushed in the other order.
build_query_params_cursor_first(m) ==
    LET pairs == query_loop(m.query, 1, <<>>)
    IN  IF pairs.kind # "ok" THEN pairs
        ELSE Ok(pairs.val
                \o (IF IsSome(m.fields) THEN <<<<FieldsKey, Unwrap(m.fields)>>>> ELSE <<>>)
                \o [i \in 1..Len(m.expand) |-> <<ExpandKey, m.expand[i]>>]
                \o (IF IsSome(m.cursor) THEN <<<<CursorKey, Unwrap(m.cursor)>>>> ELSE <<>>)
                \o (IF IsSome(m.per_page) THEN <<<<PerPageKey, Unwrap(m.per_page)>>>> ELSE <<>>))

build_query_params(m) ==
    LET pairs == query_loop(m.query, 1, <<>>)
    IN  IF pairs.kind # "ok" THEN pairs
        ELSE Ok(pairs.val
                \o (IF IsSome(m.fields) THEN <<<<FieldsKey, Unwrap(m.fields)>>>> ELSE <<>>)
                \o [i \in 1..Len(m.expand) |-> <<ExpandKey, m.expand[i]>>]
                \o (IF IsSome(m.per_page) THEN <<<<PerPageKey, Unwrap(m.per_page)>>>> ELSE <<>>)
                \o (IF IsSome(m.cursor) THEN <<<<CursorKey, Unwrap(m.cursor)>>>> ELSE <<>>))

----------------------------------------------------------------------------
(* resolve_api_base, src/main.rs 506-514, find_op, 350-355, and the tests  *)
(* of run(), 56 and http.rs 73-78.  The names of resources and operations  *)
(* are only compared, so they are plain strings.                           *)

DefaultApiUrl ==
    <<"h", "t", "t", "p", "s", ":", "/", "/",
      "a", "p", "i", ".", "p", "l", "a", "n", "e", ".", "s", "o">>

resolve_api_base(tree, e) ==
    IF IsSome(e.base_url)
    THEN split_base_url(Unwrap(e.base_url), tree.base_path)
    ELSE Ok(<<IF IsSome(e.api_url) THEN Unwrap(e.api_url) ELSE DefaultApiUrl,
              IF IsSome(e.api_base_path) THEN Unwrap(e.api_base_path)
              ELSE tree.base_path>>)

\* The first operation named op of the first resource named res, an Option.
find_op(tree, res, op) ==
    LET rs == {i \in 1..Len(tree.resources) : tree.resources[i].name = res}
    IN  IF rs = {} THEN None
        ELSE LET ops == tree.resources[Min(rs)].ops
                 os  == {j \in 1..Len(ops) : ops[j].name = op}
             IN  IF os = {} THEN None ELSE Some(ops[Min(os)])

\* A plausible slip: the gate forgets the --include-deprecated toggle.
deprecation_gate_no_toggle(op, include_deprecated) == op.deprecated

\* op.deprecated && !include_deprecated
deprecation_gate(op, include_deprecated) == op.deprecated /\ ~include_deprecated

\* (200..300).contains(&status)
ensure_success(status) ==
    IF 200 <= status /\ status < 300 THEN Ok(<<>>) ELSE Err("http", <<status>>)

\* Method::from_bytes, http.rs 34: a method is a non-empty run of token
\* characters; the space stands for every character that is not one.
method_from_bytes(method) ==
    IF method = <<>> \/ Contains(method, " ")
    THEN Err("invalid http method", <<>>)
    ELSE Ok(method)

----------------------------------------------------------------------------
(* The target URL of the raw request command, src/main.rs 321-327. *)

HttpScheme == <<"h", "t", "t", "p", ":", "/", "/">>
HttpsScheme == <<"h", "t", "t", "p", "s", ":", "/", "/">>

\* path.starts_with("http://") || path.starts_with("https://")
request_is_url(p) == starts_with(p, HttpScheme) \/ starts_with(p, HttpsScheme)

\* A plausible slip: the origin is used as it was given.
request_from_origin_untrimmed(api_url, p) == api_url \o p

\* format!("{}{}", api_url.trim_end_matches('/'), path)
request_from_origin(api_url, p) == trim_end_matches(api_url, "/") \o p

request_url(api_url, base_path, p) ==
    IF request_is_url(p) THEN p
    ELSE IF starts_with(p, <<"/">>) THEN request_from_origin(api_url, p)
    ELSE join_url(api_url, base_path, p)

----------------------------------------------------------------------------
(* Each specification below calls one function, or runs one invocation;   *)
(* the state of the others stays idle.                                     *)

PathIdle == template = <<>> /\ params = <<>> /\ path = Pending
SplitIdle == base_url = <<>> /\ default_path = <<>> /\ split = Pending
JoinIdle == join_args = <<>> /\ joined = Pending
QueryIdle == query_input = <<>> /\ query_pair = Pending
BodyIdle ==
    /\ body_json = None /\ body_file = None /\ files = <<>>
    /\ file_reads = 0 /\ body = Pending
CollectIdle ==
    /\ op_params = <<>> /\ matches = <<>> /\ plane_workspace = None
    /\ collected = Pending
QueryParamsIdle == query_flags = <<>> /\ query_params = Pending
RunIdle ==
    /\ pc = "idle" /\ env = <<>> /\ cli = <<>> /\ locals = <<>>
    /\ requests = 0 /\ stdout = 0 /\ result = Pending

----------------------------------------------------------------------------
(* The specification of build_path calls: every template over the           *)
(* delimiters and a letter, every partial binding of the names.            *)

TemplateChars == {"<", ">", ":", "a"}
ParamNames == {<<"a">>, <<"a", "a">>}
ParamValues == {<<"a">>, <<"<", "a", ">">>}
Bindings == UNION {[names -> ParamValues] : names \in SUBSET ParamNames}

PathInit ==
    /\ template \in StringsUpTo(TemplateChars, MaxTemplateLen)
    /\ params \in Bindings
    /\ path = Pending
    /\ SplitIdle /\ JoinIdle /\ QueryIdle /\ BodyIdle /\ CollectIdle /\ RunIdle
    /\ QueryParamsIdle

BuildPath ==
    /\ path = Pending
    /\ path' = build_path(template, params)
    /\ UNCHANGED <<template, params>>
    /\ UNCHANGED <<splitVars, joinVars, queryVars, bodyVars, collectVars, runVars,
                 queryParamsVars>>

SpecPath == PathInit /\ [][BuildPath]_vars

----------------------------------------------------------------------------
(* What the claims about build_path speak of, stated on the template       *)
(* itself: its parts from left to right, each a token (the text between a  *)
(* '<' and the first '>' after it), a character of other text, or the rest *)
(* of the template from a '<' that no '>' follows.                         *)

FirstIndex(s, c) == Min({i \in 1..Len(s) : s[i] = c})

RECURSIVE Parts(_)
Parts(t) ==
    IF t = <<>> THEN <<>>
    ELSE IF Head(t) # "<"
         THEN <<[part |-> "text", text |-> <<Head(t)>>]>> \o Parts(Tail(t))
    ELSE IF ~Contains(t, ">")
         THEN <<[part |-> "open", text |-> t]>>
    ELSE LET close == FirstIndex(t, ">")
         IN  <<[part |-> "token", text |-> SubSeq(t, 2, close - 1)]>>
                \o Parts(SubSeq(t, close + 1, Len(t)))

RECURSIVE Flatten(_)
Flatten(ss) == IF ss = <<>> THEN <<>> ELSE Head(ss) \o Flatten(Tail(ss))

\* The whole substring after the first ':' of the token, else the token.
KeyAfterFirstColon(token) ==
    IF Contains(token, ":")
    THEN SubSeq(token, FirstIndex(token, ":") + 1, Len(token))
    ELSE token

\* The text between the first ':' and the second, or the end of the token.
KeyBetweenColons(token) ==
    LET rest == KeyAfterFirstColon(token)
    IN  IF Contains(token, ":") /\ Contains(rest, ":")
        THEN SubSeq(rest, 1, FirstIndex(rest, ":") - 1)
        ELSE rest

TokenTexts(t) ==
    LET ps == Parts(t)
    IN  {ps[i].text : i \in {j \in 1..Len(ps) : ps[j].part = "token"}}

HasStrayClose(t) ==
    LET ps == Parts(t)
    IN  \E i \in 1..Len(ps) : ps[i].part = "text" /\ ps[i].text = <<">">>

\* Some '<' of the template has no '>' after it.
HasUnclosed(t) ==
    \E i \in 1..Len(t) : t[i] = "<" /\ \A j \in (i + 1)..Len(t) : t[j] # ">"

NoDelimiter(s) == ~Contains(s, "<") /\ ~Contains(s, ">")

\* The template with each token replaced by the value bound to its key.
Substituted(t, bindings, Key(_)) ==
    LET ps == Parts(t)
    IN  Flatten([i \in 1..Len(ps) |->
                    IF ps[i].part = "token"
                    THEN bindings[Key(ps[i].text)]
                    ELSE ps[i].text])

\* C1 as stated: a successful build_path result holds no '<' and no '>',
\* whatever the template and the bindings.
C1_NoDelimiterEver ==
    path.kind = "ok" => NoDelimiter(path.val)

\* C1: a successful build_path result holds no '<' and no '>' when every
\* '>' of the template closes a token and the values bound to the
\* template's tokens hold neither character.
C1_NoResidualDelimiter ==
    (/\ path.kind = "ok"
     /\ ~HasStrayClose(template)
     /\ \A tok \in TokenTexts(template) :
            /\ KeyBetweenColons(tok) \in DOMAIN params
            /\ NoDelimiter(params[KeyBetweenColons(tok)]))
    => NoDelimiter(path.val)

C1_Witness ==
    /\ path.kind = "ok"
    /\ Cardinality(TokenTexts(template)) >= 1
    /\ Len(template) = MaxTemplateLen
    /\ ~HasStrayClose(template)
    /\ \A tok \in TokenTexts(template) : NoDelimiter(params[KeyBetweenColons(tok)])
    /\ \E name \in DOMAIN params : ~NoDelimiter(params[name])

\* C2 as stated: the lookup key of a token is the whole substring after
\* its first ':' (else the token); build_path succeeds with the template's
\* tokens replaced by the values bound to those keys and the other text
\* copied, the values not scanned again.
C2_KeyIsAllAfterFirstColon ==
    path.kind = "ok" =>
        /\ \A tok \in TokenTexts(template) : KeyAfterFirstColon(tok) \in DOMAIN params
        /\ path.val = Substituted(template, params, KeyAfterFirstColon)

\* C2: the lookup key of a token is the text between its first ':' and
\* its second (to the end when there is one ':', the whole token when
\* there is none); build_path succeeds exactly when no '<' is left open
\* and every such key is bound, and the result is then the template with
\* each token replaced by the value bound to its key, every other
\* character copied in order, the values not scanned again.
C2_SubstitutesLeftToRight ==
    LET bound == \A tok \in TokenTexts(template) : KeyBetweenColons(tok) \in DOMAIN params
    IN  path # Pending =>
            /\ path.kind = "ok" <=> (bound /\ ~HasUnclosed(template))
            /\ path.kind = "ok" =>
                   path.val = Substituted(template, params, KeyBetweenColons)

C2_Witness ==
    /\ path.kind = "ok"
    /\ \E tok \in TokenTexts(template) :
           /\ Contains(tok, ":")
           /\ KeyBetweenColons(tok) # KeyAfterFirstColon(tok)
    /\ \E tok \in TokenTexts(template) : Contains(params[KeyBetweenColons(tok)], "<")

\* The keys of the template's tokens, left to right.
TokenKeys(t) ==
    LET ps  == Parts(t)
        idx == {j \in 1..Len(ps) : ps[j].part = "token"}
        nth(k) == CHOOSE j \in idx : Cardinality({i \in idx : i < j}) = k - 1
    IN  [k \in 1..Cardinality(idx) |-> KeyBetweenColons(ps[nth(k)].text)]

\* C3 as stated: build_path fails with the missing-value error naming the
\* key whenever a token's key is unbound, and with the malformed-template
\* error whenever some '<' has no '>' after it.
C3_EveryErrorReported ==
    LET keys == TokenKeys(template)
    IN  path # Pending =>
            /\ \A k \in 1..Len(keys) :
                   keys[k] \notin DOMAIN params => path = Err("missing value", keys[k])
            /\ HasUnclosed(template) => path = Err("invalid path template", <<>>)

\* C3: build_path fails with the missing-value error naming the leftmost
\* unbound token key whenever some token's key is unbound, and with the
\* malformed-template error whenever some '<' has no '>' after it and
\* every token's key is bound; in both cases no path is returned.
C3_LeftmostErrorReported ==
    LET keys    == TokenKeys(template)
        missing == {k \in 1..Len(keys) : keys[k] \notin DOMAIN params}
    IN  path # Pending =>
            /\ missing # {} => path = Err("missing value", keys[Min(missing)])
            /\ (missing = {} /\ HasUnclosed(template)) =>
                   path = Err("invalid path template", <<>>)
            /\ (missing # {} \/ HasUnclosed(template)) => path.kind # "ok"

C3_Witness ==
    LET keys == TokenKeys(template)
    IN  /\ path = Err("missing value", <<"a">>)
        /\ Len(keys) = 1
        /\ HasUnclosed(template)

----------------------------------------------------------------------------
(* The specification of split_base_url calls: every override over space,   *)
(* '/', ':' and a letter, and a default path as the command tree holds it: *)
(* src/tests.rs 44 asserts that tree.base_path starts with '/'.            *)

UrlChars == {" ", "/", ":", "h"}
DefaultPaths == {<<"/">>, <<"/", "h">>}

SplitInit ==
    /\ base_url \in StringsUpTo(UrlChars, MaxUrlLen)
    /\ default_path \in DefaultPaths
    /\ split = Pending
    /\ PathIdle /\ JoinIdle /\ QueryIdle /\ BodyIdle /\ CollectIdle /\ RunIdle
    /\ QueryParamsIdle

SplitBaseUrl ==
    /\ split = Pending
    /\ split' = split_base_url(base_url, default_path)
    /\ UNCHANGED <<base_url, default_path>>
    /\ UNCHANGED <<pathVars, joinVars, queryVars, bodyVars, collectVars, runVars,
                 queryParamsVars>>

SpecSplit == SplitInit /\ [][SplitBaseUrl]_vars

----------------------------------------------------------------------------
(* The specification of join_url calls. *)

JoinChars == {"/", "h"}

JoinInit ==
    /\ join_args \in [1..3 -> StringsUpTo(JoinChars, MaxJoinLen)]
    /\ joined = Pending
    /\ PathIdle /\ SplitIdle /\ QueryIdle /\ BodyIdle /\ CollectIdle /\ RunIdle
    /\ QueryParamsIdle

JoinUrl ==
    /\ joined = Pending
    /\ joined' = Ok(join_url(join_args[1], join_args[2], join_args[3]))
    /\ UNCHANGED <<join_args>>
    /\ UNCHANGED <<pathVars, splitVars, queryVars, bodyVars, collectVars, runVars,
                 queryParamsVars>>

SpecJoin == JoinInit /\ [][JoinUrl]_vars

----------------------------------------------------------------------------
(* What the claims about split_base_url and join_url speak of, stated on   *)
(* the positions of the characters.                                        *)

\* s without the leading (left) and the trailing (right) run of its
\* characters that satisfy Drop.
Stripped(s, Drop(_), left, right) ==
    LET keep == {i \in 1..Len(s) : ~Drop(s[i])}
    IN  IF keep = {} THEN <<>>
        ELSE SubSeq(s, IF left THEN Min(keep) ELSE 1,
                       IF right THEN Max(keep) ELSE Len(s))

IsSlash(c) == c = "/"

\* The override without surrounding whitespace, then without trailing '/'.
TrimmedOverride(url) ==
    Stripped(Stripped(url, IsWhitespace, TRUE, TRUE), IsSlash, FALSE, TRUE)

SepStarts(s) == {i \in 1..(Len(s) - 2) : SubSeq(s, i, i + 2) = SchemeSep}
HasSep(s) == SepStarts(s) # {}

\* The positions of the '/' characters that follow the first "://" of s.
SlashesAfterSep(s) ==
    {k \in (Min(SepStarts(s)) + 3)..Len(s) : s[k] = "/"}

EndsWithSlash(s) == s # <<>> /\ s[Len(s)] = "/"

\* C4: on success the origin is the trimmed override up to the first '/'
\* after its "://" (all of it when there is none), the path is the rest
\* from that '/' on, or the default path when there is no such '/', and
\* the path starts with '/'.
C4_SplitsAtFirstSlashAfterScheme ==
    split.kind = "ok" =>
        LET t      == TrimmedOverride(base_url)
            after  == SlashesAfterSep(t)
            origin == split.val[1]
            bpath  == split.val[2]
        IN  /\ HasSep(t)
            /\ after = {} => (origin = t /\ bpath = default_path)
            /\ after # {} => /\ origin = SubSeq(t, 1, Min(after) - 1)
                             /\ bpath = SubSeq(t, Min(after), Len(t))
            /\ starts_with(bpath, <<"/">>)

C4_Witness ==
    /\ split.kind = "ok"
    /\ split.val[2] # default_path
    /\ Cardinality(SlashesAfterSep(TrimmedOverride(base_url))) >= 1
    /\ Contains(split.val[1], "h")
    /\ Contains(split.val[2], "h")

\* C5 as stated: the empty-override error exactly when the override is
\* empty once trimmed, the missing-scheme error when the override holds no
\* "://", and no rejection of an override that holds "://" and is not empty
\* once trimmed.
C5_SchemeAnywhereAccepted ==
    split # Pending =>
        LET t == TrimmedOverride(base_url)
        IN  /\ split.kind = "PLANE_BASE_URL empty" <=> t = <<>>
            /\ (t # <<>> /\ ~HasSep(base_url)) =>
                   split.kind = "PLANE_BASE_URL must include scheme"
            /\ (t # <<>> /\ HasSep(base_url)) => split.kind = "ok"

\* C5: the empty-override error exactly when the override is empty once
\* trimmed of surrounding whitespace and trailing '/', the missing-scheme
\* error exactly when the trimmed override is not empty and holds no
\* "://", and success exactly when the trimmed override holds "://".
C5_RejectsByTrimmedOverride ==
    split # Pending =>
        LET t == TrimmedOverride(base_url)
        IN  /\ split.kind = "PLANE_BASE_URL empty" <=> t = <<>>
            /\ split.kind = "PLANE_BASE_URL must include scheme"
                   <=> (t # <<>> /\ ~HasSep(t))
            /\ split.kind = "ok" <=> HasSep(t)

C5_Witness ==
    /\ split.kind = "PLANE_BASE_URL must include scheme"
    /\ HasSep(base_url)
    /\ starts_with(base_url, <<"h">>)

\* The non-empty strings of parts joined by one '/' each.
RECURSIVE SlashJoined(_)
SlashJoined(parts) ==
    IF parts = <<>> THEN <<>>
    ELSE IF Head(parts) = <<>> THEN SlashJoined(Tail(parts))
    ELSE LET rest == SlashJoined(Tail(parts))
         IN  IF rest = <<>> THEN Head(parts) ELSE Head(parts) \o <<"/">> \o rest

JoinOrigin == Stripped(join_args[1], IsSlash, FALSE, TRUE)
JoinBasePath == Stripped(join_args[2], IsSlash, TRUE, TRUE)
JoinPath == Stripped(join_args[3], IsSlash, TRUE, FALSE)

\* C6 as stated: join_url returns the trimmed origin, base path and path
\* joined by one '/' between adjacent non-empty parts, and the URL ends
\* with '/' whenever the path argument does.
C6_JoinsNonEmptyParts ==
    joined.kind = "ok" =>
        /\ joined.val = SlashJoined(<<JoinOrigin, JoinBasePath, JoinPath>>)
        /\ EndsWithSlash(join_args[3]) => EndsWithSlash(joined.val)

\* C6: join_url returns the origin without its trailing slashes, then one
\* '/', then the base path (trimmed of slashes at both ends) and the path
\* (trimmed of leading slashes) joined by one '/' when both are non-empty,
\* else the non-empty one, else nothing; and the URL ends with '/' whenever
\* the path argument ends with '/' and either holds another character or
\* the base path trims to nothing.
C6_JoinsAfterOriginSlash ==
    joined.kind = "ok" =>
        /\ joined.val = JoinOrigin \o <<"/">> \o SlashJoined(<<JoinBasePath, JoinPath>>)
        /\ (EndsWithSlash(join_args[3]) /\ (JoinPath # <<>> \/ JoinBasePath = <<>>))
               => EndsWithSlash(joined.val)

C6_Witness ==
    /\ joined.kind = "ok"
    /\ JoinOrigin # <<>> /\ JoinBasePath # <<>> /\ JoinPath # <<>>
    /\ EndsWithSlash(join_args[1])
    /\ EndsWithSlash(join_args[2]) /\ starts_with(join_args[2], <<"/">>)
    /\ EndsWithSlash(join_args[3])

----------------------------------------------------------------------------
(* The specification of parse_query_pair calls. *)

QueryChars == {"=", " ", "a"}

QueryInit ==
    /\ query_input \in StringsUpTo(QueryChars, MaxQueryLen)
    /\ query_pair = Pending
    /\ PathIdle /\ SplitIdle /\ JoinIdle /\ BodyIdle /\ CollectIdle /\ RunIdle
    /\ QueryParamsIdle

ParseQueryPair ==
    /\ query_pair = Pending
    /\ query_pair' = parse_query_pair(query_input)
    /\ UNCHANGED <<query_input>>
    /\ UNCHANGED <<pathVars, splitVars, joinVars, bodyVars, collectVars, runVars,
                 queryParamsVars>>

SpecQuery == QueryInit /\ [][ParseQueryPair]_vars

\* The text before the first '=' of the input, and the text after it.
BeforeFirstEq(input) == SubSeq(input, 1, FirstIndex(input, "=") - 1)
AfterFirstEq(input) == SubSeq(input, FirstIndex(input, "=") + 1, Len(input))

Trimmed(s) == Stripped(s, IsWhitespace, TRUE, TRUE)

\* C7 as stated: parse_query_pair splits on the first '=' only and returns
\* (key, trimmed value) exactly when the input holds '=' and the key before
\* it and the trimmed value after it are non-empty; otherwise it fails
\* with the invalid-query-param error.
C7_KeyTakenAsWritten ==
    query_pair # Pending =>
        IF /\ Contains(query_input, "=")
           /\ BeforeFirstEq(query_input) # <<>>
           /\ Trimmed(AfterFirstEq(query_input)) # <<>>
        THEN query_pair = Ok(<<BeforeFirstEq(query_input),
                               Trimmed(AfterFirstEq(query_input))>>)
        ELSE query_pair.kind = "invalid query param"

\* C7: parse_query_pair splits on the first '=' only and returns (trimmed
\* key, trimmed value) exactly when the input holds '=' and the trimmed key
\* before it and the trimmed value after it are non-empty; otherwise (no
\* '=', empty or whitespace-only key or value) it fails with the
\* invalid-query-param error.
C7_SplitsOnFirstEq ==
    query_pair # Pending =>
        IF /\ Contains(query_input, "=")
           /\ Trimmed(BeforeFirstEq(query_input)) # <<>>
           /\ Trimmed(AfterFirstEq(query_input)) # <<>>
        THEN query_pair = Ok(<<Trimmed(BeforeFirstEq(query_input)),
                               Trimmed(AfterFirstEq(query_input))>>)
        ELSE query_pair.kind = "invalid query param"

C7_Witness ==
    /\ query_pair.kind = "ok"
    /\ Contains(query_pair.val[2], "=")
    /\ query_pair.val[1] # BeforeFirstEq(query_input)

----------------------------------------------------------------------------
(* The specification of read_body calls: every pair of optional            *)
(* --body-json text and --body-file path, the file unreadable or holding   *)
(* any text.                                                               *)

BodyChars == {"1", "{", "}", " "}
BodyTexts == StringsUpTo(BodyChars, MaxBodyLen)
BodyPaths == {<<"f">>}
Option(S) == {None} \cup {Some(x) : x \in S}

BodyInit ==
    /\ body_json \in Option(BodyTexts)
    /\ body_file \in Option(BodyPaths)
    /\ files \in [BodyPaths -> Option(BodyTexts)]
    /\ file_reads = 0
    /\ body = Pending
    /\ PathIdle /\ SplitIdle /\ JoinIdle /\ QueryIdle /\ CollectIdle /\ RunIdle
    /\ QueryParamsIdle

ReadBody ==
    /\ body = Pending
    /\ LET r == read_body(body_json, body_file, files)
       IN  /\ body' = r.result
           /\ file_reads' = file_reads + r.reads
    /\ UNCHANGED <<body_json, body_file, files>>
    /\ UNCHANGED <<pathVars, splitVars, joinVars, queryVars, collectVars, runVars,
                 queryParamsVars>>

SpecBody == BodyInit /\ [][ReadBody]_vars

ConflictError == Err("use only one of --body-json or --body-file", <<>>)

InvalidJsonErrors == {"invalid JSON body", "invalid JSON body file"}

\* The text the one supplied source gives: the inline text, or the file's.
SuppliedText ==
    IF IsSome(body_json) THEN body_json ELSE files[Unwrap(body_file)]

\* C9 as stated: with both sources the conflict error, whatever they hold
\* and without reading the file; with exactly one the parsed JSON or an
\* invalid-JSON error; with neither no body.
C9_OneSourceParsesOrInvalid ==
    body # Pending =>
        /\ (IsSome(body_json) /\ IsSome(body_file)) =>
               (body = ConflictError /\ file_reads = 0)
        /\ (IsSome(body_json) # IsSome(body_file)) =>
               /\ body.kind \in {"ok"} \cup InvalidJsonErrors
               /\ body.kind = "ok" =>
                      body.val = Some(json_from_str(Unwrap(SuppliedText)).val)
        /\ (~IsSome(body_json) /\ ~IsSome(body_file)) => body = Ok(None)

\* C9: with both --body-json and --body-file read_body fails with the
\* conflict error, whatever they hold and without reading the file; with
\* exactly one it returns the parsed JSON of the supplied text, or an
\* invalid-JSON error when that text is not JSON, or, for a --body-file
\* that cannot be read, the read-body-file error; with neither it returns
\* no body.
C9_ConflictBeforeAnyRead ==
    body # Pending =>
        /\ (IsSome(body_json) /\ IsSome(body_file)) =>
               (body = ConflictError /\ file_reads = 0)
        /\ (IsSome(body_json) # IsSome(body_file)) =>
               IF ~IsSome(SuppliedText)
               THEN body.kind = "read body file"
               ELSE LET parsed == json_from_str(Unwrap(SuppliedText))
                    IN  IF parsed.kind = "ok"
                        THEN body = Ok(Some(parsed.val))
                        ELSE body.kind \in InvalidJsonErrors
        /\ (~IsSome(body_json) /\ ~IsSome(body_file)) =>
               (body = Ok(None) /\ file_reads = 0)

C9_Witness ==
    /\ body = ConflictError
    /\ IsSome(body_json) /\ json_from_str(Unwrap(body_json)).kind # "ok"
    /\ IsSome(body_file) /\ ~IsSome(files[Unwrap(body_file)])
    /\ file_reads = 0

----------------------------------------------------------------------------
(* The specification of collect_path_params calls: operations of up to     *)
(* MaxParams Params, CLI values for any of them, PLANE_WORKSPACE set or    *)
(* not.                                                                    *)

SlugCapital == <<"S", "l", "u", "g">>
ProjectId == <<"p", "r", "o", "j", "e", "c", "t", "_", "i", "d">>
ProjectIdFlag == <<"p", "r", "o", "j", "e", "c", "t", "-", "i", "d">>

ParamPool ==
    {[name |-> n, flag |-> n] :
        n \in {Slug, Workspace, WorkspaceSnake, WorkspaceCamel, SlugCapital}}
    \cup {[name |-> ProjectId, flag |-> ProjectIdFlag]}

CliValues == {<<"c">>}
EnvValues == {<<"e">>}

NamesOf(ps) == {ps[i].name : i \in 1..Len(ps)}

CollectInit ==
    /\ op_params \in StringsUpTo(ParamPool, MaxParams)
    /\ matches \in UNION {[names -> CliValues] : names \in SUBSET NamesOf(op_params)}
    /\ plane_workspace \in Option(EnvValues)
    /\ collected = Pending
    /\ PathIdle /\ SplitIdle /\ JoinIdle /\ QueryIdle /\ BodyIdle /\ RunIdle
    /\ QueryParamsIdle

CollectPathParams ==
    /\ collected = Pending
    /\ collected' = collect_path_params(op_params, matches, plane_workspace)
    /\ UNCHANGED <<op_params, matches, plane_workspace>>
    /\ UNCHANGED <<pathVars, splitVars, joinVars, queryVars, bodyVars, runVars,
                 queryParamsVars>>

SpecCollect == CollectInit /\ [][CollectPathParams]_vars

WorkspaceSpellings == {Slug, Workspace, WorkspaceSnake, WorkspaceCamel}

\* Where the value of the i-th Param comes from: the CLI, else the
\* environment for a workspace-sourced name, else nowhere.
ValueFor(i) ==
    LET name == op_params[i].name
    IN  IF name \in DOMAIN matches THEN Some(matches[name])
        ELSE IF name \in WorkspaceSpellings THEN plane_workspace
        ELSE None

\* C10: collect_path_params binds every declared Param to its CLI value
\* when present, to PLANE_WORKSPACE only when the CLI value is absent and
\* the name is one of slug, workspace, workspace_slug, workspaceSlug, and
\* fails with the missing-required-argument error naming the flag of the
\* first Param left without a value; a success binds every declared name.
C10_BindsEveryParam ==
    collected # Pending =>
        LET missing == {i \in 1..Len(op_params) : ~IsSome(ValueFor(i))}
        IN  IF missing = {}
            THEN /\ collected.kind = "ok"
                 /\ DOMAIN collected.val = NamesOf(op_params)
                 /\ \A i \in 1..Len(op_params) :
                        collected.val[op_params[i].name] = Unwrap(ValueFor(i))
            ELSE collected =
                     Err("missing required argument", op_params[Min(missing)].flag)

C10_Witness ==
    /\ collected.kind = "ok"
    /\ \E i, j \in 1..Len(op_params) :
          /\ collected.val[op_params[i].name] \in CliValues
          /\ op_params[i].name \notin WorkspaceSpellings
          /\ collected.val[op_params[j].name] \in EnvValues

----------------------------------------------------------------------------
(* The specification of build_query_params calls: up to MaxQueryArgs       *)
(* --query values, valid and invalid, and --expand values, and each of     *)
(* --fields, --per-page and --cursor given or not.                         *)

QueryValues == {<<"a", "=", "1">>, <<" ", "b", "=", "2">>, <<"=">>}
ExpandValues == {<<"x">>, <<"y">>}
FieldsValues == {<<"f">>}
PerPageValues == {<<"9">>}
CursorValues == {<<"c">>}

QueryFlags ==
    [query : StringsUpTo(QueryValues, MaxQueryArgs),
     fields : Option(FieldsValues),
     expand : StringsUpTo(ExpandValues, MaxQueryArgs),
     per_page : Option(PerPageValues),
     cursor : Option(CursorValues)]

QueryParamsInit ==
    /\ query_flags \in QueryFlags
    /\ query_params = Pending
    /\ PathIdle /\ SplitIdle /\ JoinIdle /\ QueryIdle /\ BodyIdle /\ CollectIdle
    /\ RunIdle

BuildQueryParams ==
    /\ query_params = Pending
    /\ query_params' = build_query_params(query_flags)
    /\ UNCHANGED <<query_flags>>
    /\ UNCHANGED <<pathVars, splitVars, joinVars, queryVars, bodyVars, collectVars,
                   runVars>>

SpecQueryParams == QueryParamsInit /\ [][BuildQueryParams]_vars

\* A --query value is a valid pair, and the entry it stands for.
ValidPair(input) ==
    /\ Contains(input, "=")
    /\ Trimmed(BeforeFirstEq(input)) # <<>>
    /\ Trimmed(AfterFirstEq(input)) # <<>>

EntryOf(input) == <<Trimmed(BeforeFirstEq(input)), Trimmed(AfterFirstEq(input))>>

\* How many entries an optional flag contributes.
Count(o) == IF o = None THEN 0 ELSE 1

\* C12: build_query_params returns the entries in this order: every
\* --query pair in the order given, then the fields entry if present, then
\* one expand entry per --expand value in the order given, then per_page
\* if present, then cursor if present; if any --query pair is invalid the
\* call fails and returns no list.
C12_EntriesInOrder ==
    query_params # Pending =>
        LET m  == query_flags
            nq == Len(m.query)
            nf == nq + Count(m.fields)
            ne == nf + Len(m.expand)
            np == ne + Count(m.per_page)
            nc == np + Count(m.cursor)
            out == query_params.val
        IN  IF \E i \in 1..nq : ~ValidPair(m.query[i])
            THEN query_params.kind = "invalid query param"
            ELSE /\ query_params.kind = "ok"
                 /\ Len(out) = nc
                 /\ \A i \in 1..nq : out[i] = EntryOf(m.query[i])
                 /\ m.fields # None => out[nf] = <<FieldsKey, m.fields[1]>>
                 /\ \A j \in 1..Len(m.expand) : out[nf + j] = <<ExpandKey, m.expand[j]>>
                 /\ m.per_page # None => out[np] = <<PerPageKey, m.per_page[1]>>
                 /\ m.cursor # None => out[nc] = <<CursorKey, m.cursor[1]>>

C12_Witness ==
    /\ query_params.kind = "ok"
    /\ Len(query_flags.query) = 2 /\ query_flags.query[1] # query_flags.query[2]
    /\ Len(query_flags.expand) = 2 /\ query_flags.expand[1] # query_flags.expand[2]
    /\ query_flags.fields # None
    /\ query_flags.per_page # None
    /\ query_flags.cursor # None
    /\ Len(query_params.val) = 7

----------------------------------------------------------------------------
(* run(), src/main.rs 20-83, for an operation command, and                 *)
(* handle_request(), 310-348, for the raw request command: one action for  *)
(* each stretch between two points where they can return.                  *)
(*                                                                         *)
(* The command tree is a sample of the embedded schema: two resources,     *)
(* one operation deprecated, templates with '<type:name>' and '<name>'     *)
(* tokens that name exactly the operation's Params.                        *)

Lt == <<"<">>
Gt == <<">">>
StrColon == <<"s", "t", "r", ":">>

Tree ==
    [version |-> 1,
     base_path |-> <<"/", "v">>,
     resources |-> <<
        [name |-> "projects",
         ops |-> <<
            [name |-> "get", method |-> <<"G", "E", "T">>, deprecated |-> FALSE,
             path |-> <<"/">> \o Lt \o StrColon \o Slug \o Gt
                      \o <<"/">> \o Lt \o ProjectId \o Gt \o <<"/">>,
             params |-> <<[name |-> Slug, flag |-> Slug],
                          [name |-> ProjectId, flag |-> ProjectIdFlag]>>],
            [name |-> "archive", method |-> <<"P", "O", "S", "T">>, deprecated |-> TRUE,
             path |-> <<"/">> \o Lt \o Slug \o Gt \o <<"/", "a">>,
             params |-> <<[name |-> Slug, flag |-> Slug]>>]>>],
        [name |-> "members",
         ops |-> <<
            [name |-> "get", method |-> <<"G", "E", "T">>, deprecated |-> FALSE,
             path |-> <<"/", "m", "/">>,
             params |-> <<>>]>>]>>]

\* The operation commands clap accepts: an operation of the tree, with a
\* value for every Param that build_param_arg makes required (225-233).
CommandsOf(tree) ==
    UNION {{[res |-> tree.resources[i].name, op |-> tree.resources[i].ops[j]] :
               j \in 1..Len(tree.resources[i].ops)} :
           i \in 1..Len(tree.resources)}

RequiredNames(op) == {n \in NamesOf(op.params) : ~is_workspace_param(n)}

ArgsOf(op) ==
    UNION {[names -> CliValues] :
              names \in {ns \in SUBSET NamesOf(op.params) : RequiredNames(op) \subseteq ns}}

GoodBaseUrl == <<"h", ":", "/", "/", "h", "/", "b">>
BadBaseUrl == <<"h", ":", "/", "/">>
OtherApiUrl == <<"h", ":", "/", "/", "u", "/">>
OtherBasePath == <<"b", "/">>

Envs ==
    [api_key : Option({<<"k">>}),
     base_url : Option({GoodBaseUrl, BadBaseUrl}),
     api_url : Option({OtherApiUrl}),
     api_base_path : Option({OtherBasePath}),
     workspace : Option(EnvValues)]

QueryArgs == {<<>>, << <<"a", "=", "a">> >>, << <<"a", "=", "a">>, <<"=">> >>}

Invocations ==
    UNION {[res : {c.res}, op : {c.op.name},
            method : {None}, path : {None},
            include_deprecated : BOOLEAN,
            args : ArgsOf(c.op),
            query : QueryArgs,
            fields : {None}, expand : {<<>>}, per_page : {None}, cursor : {None},
            body_json : Option({<<"1">>, <<"{">>}),
            body_file : Option(BodyPaths)] :
           c \in CommandsOf(Tree)}

\* The raw request commands clap accepts (196-201): 'request', a method and
\* a path, both required, and the global flags.
RequestCommand == "request"

RequestMethods == {<<"G", "E", "T">>, <<"G", " ">>}

RequestPaths ==
    {HttpScheme \o <<"x">>, HttpsScheme \o <<"x", "/">>,
     <<"h", "t", "t", "p", ":", "/", "x">>,
     <<"/">>, <<"/", "x">>, <<"/", "/", "x", "/">>,
     <<>>, <<"x">>, <<"x", "/">>}

RequestInvocations ==
    [res : {RequestCommand}, op : {""},
     method : {Some(m) : m \in RequestMethods},
     path : {Some(p) : p \in RequestPaths},
     include_deprecated : {FALSE},
     args : {<<>>},
     query : QueryArgs,
     fields : {None}, expand : {<<>>}, per_page : {None}, cursor : {None},
     body_json : Option({<<"1">>, <<"{">>}),
     body_file : Option(BodyPaths)]

RunFiles == [f \in BodyPaths |-> Some(<<"{", "}">>)]

NoLocals ==
    [api |-> Pending, op |-> None, params |-> Pending, path |-> Pending,
     url |-> None, query |-> Pending, body |-> Pending, response |-> None]

Init ==
    /\ pc = "start"
    /\ env \in Envs
    /\ cli \in Invocations \cup RequestInvocations
    /\ locals = NoLocals
    /\ requests = 0
    /\ stdout = 0
    /\ result = Pending
    /\ PathIdle /\ SplitIdle /\ JoinIdle /\ QueryIdle /\ BodyIdle /\ CollectIdle
    /\ QueryParamsIdle

RunIdleOthers ==
    UNCHANGED <<pathVars, splitVars, joinVars, queryVars, bodyVars, collectVars,
                queryParamsVars>>

\* std::process::exit(0) on a broken pipe (493, 499).
Exit0 == [kind |-> "exit 0", val |-> <<>>]

\* return Err(..), or a '?' that propagates one: run is over.
Return(r) ==
    /\ pc' = "done"
    /\ result' = r

\* 21-36: the tree is loaded, the command line parsed; list, describe and
\* tree did not match, and request is handed to handle_request.
Dispatch ==
    /\ pc = "start"
    /\ pc' = IF cli.res = RequestCommand THEN "request_api_key" ELSE "api_key"
    /\ UNCHANGED <<env, cli, locals, requests, stdout, result>>
    /\ RunIdleOthers

\* 40: env::var("PLANE_API_KEY").context("PLANE_API_KEY missing")?
CheckApiKey ==
    /\ pc = "api_key"
    /\ IF IsSome(env.api_key)
       THEN pc' = "api_base" /\ UNCHANGED result
       ELSE Return(Err("PLANE_API_KEY missing", <<>>))
    /\ UNCHANGED <<env, cli, locals, requests, stdout>>
    /\ RunIdleOthers

\* 41: resolve_api_base(&tree)?
ResolveApiBase ==
    /\ pc = "api_base"
    /\ LET api == resolve_api_base(Tree, env)
       IN  IF api.kind = "ok"
           THEN /\ locals' = [locals EXCEPT !.api = api]
                /\ pc' = "find_op"
                /\ UNCHANGED result
           ELSE Return(api) /\ UNCHANGED locals
    /\ UNCHANGED <<env, cli, requests, stdout>>
    /\ RunIdleOthers

\* 43-54: the resource and the operation named on the command line.
FindOp ==
    /\ pc = "find_op"
    /\ LET op == find_op(Tree, cli.res, cli.op)
       IN  IF IsSome(op)
           THEN /\ locals' = [locals EXCEPT !.op = op]
                /\ pc' = "gate"
                /\ UNCHANGED result
           ELSE Return(Err("unknown command", <<cli.res, cli.op>>)) /\ UNCHANGED locals
    /\ UNCHANGED <<env, cli, requests, stdout>>
    /\ RunIdleOthers

\* 56-58: the deprecation gate.
DeprecationGate ==
    /\ pc = "gate"
    /\ IF deprecation_gate(Unwrap(locals.op), cli.include_deprecated)
       THEN Return(Err("deprecated endpoint", <<>>))
       ELSE pc' = "collect" /\ UNCHANGED result
    /\ UNCHANGED <<env, cli, locals, requests, stdout>>
    /\ RunIdleOthers

\* 60: collect_path_params(op, op_matches)?
CollectParams ==
    /\ pc = "collect"
    /\ LET ps == collect_path_params(Unwrap(locals.op).params, cli.args, env.workspace)
       IN  /\ locals' = [locals EXCEPT !.params = ps]
           /\ IF ps.kind = "ok"
              THEN pc' = "build_path" /\ UNCHANGED result
              ELSE Return(ps)
    /\ UNCHANGED <<env, cli, requests, stdout>>
    /\ RunIdleOthers

\* 61-62: build_path(&op.path, &params)?, then join_url.
ResolvePath ==
    /\ pc = "build_path"
    /\ LET p == build_path(Unwrap(locals.op).path, locals.params.val)
       IN  IF p.kind = "ok"
           THEN /\ locals' = [locals EXCEPT
                       !.path = p,
                       !.url = Some(join_url(locals.api.val[1], locals.api.val[2], p.val))]
                /\ pc' = "query"
                /\ UNCHANGED result
           ELSE /\ locals' = [locals EXCEPT !.path = p]
                /\ Return(p)
    /\ UNCHANGED <<env, cli, requests, stdout>>
    /\ RunIdleOthers

\* 64: build_query_params(op_matches)?
BuildQuery ==
    /\ pc = "query"
    /\ LET q == build_query_params(cli)
       IN  /\ locals' = [locals EXCEPT !.query = q]
           /\ IF q.kind = "ok"
              THEN pc' = "body" /\ UNCHANGED result
              ELSE Return(q)
    /\ UNCHANGED <<env, cli, requests, stdout>>
    /\ RunIdleOthers

\* 65: read_body(op_matches)?
ResolveBody ==
    /\ pc = "body"
    /\ LET b == read_body(cli.body_json, cli.body_file, RunFiles).result
       IN  /\ locals' = [locals EXCEPT !.body = b]
           /\ IF b.kind = "ok"
              THEN pc' = "execute" /\ UNCHANGED result
              ELSE Return(b)
    /\ UNCHANGED <<env, cli, requests, stdout>>
    /\ RunIdleOthers

\* What the transport can do with one request (http.rs 19-71): the client
\* is not built, the send fails, the body cannot be read, or a response
\* comes back with a status.
HttpOutcomes ==
    {[fails |-> "build http client", sent |-> 0, status |-> 0],
     [fails |-> "send request", sent |-> 1, status |-> 0],
     [fails |-> "read response body", sent |-> 1, status |-> 0],
     [fails |-> "", sent |-> 1, status |-> 200],
     [fails |-> "", sent |-> 1, status |-> 404]}

\* HttpClient::new(api_key)?, then client.execute(method, ..)? (http.rs
\* 19-48): the method is parsed before the request is built and sent.
Transport(method, o, written) ==
    LET m == method_from_bytes(method)
    IN  IF o.fails = "build http client"
        THEN /\ Return(Err(o.fails, <<>>))
             /\ UNCHANGED <<locals, requests>>
        ELSE IF m.kind # "ok"
        THEN /\ Return(m)
             /\ UNCHANGED <<locals, requests>>
        ELSE /\ requests' = requests + o.sent
             /\ IF o.fails = ""
                THEN /\ locals' = [locals EXCEPT !.response = Some(o.status)]
                     /\ pc' = written
                     /\ UNCHANGED result
                ELSE Return(Err(o.fails, <<>>)) /\ UNCHANGED locals

\* 67-68: HttpClient::new(api_key)?, client.execute(&op.method, ..)?
Execute ==
    /\ pc = "execute"
    /\ \E o \in HttpOutcomes : Transport(Unwrap(locals.op).method, o, "write")
    /\ UNCHANGED <<env, cli, stdout>>
    /\ RunIdleOthers

\* 70-80: write_output(&output, pretty)?, one line on standard output
\* (480-504); a failed write returns its error, a broken pipe exits 0.
WriteOutput ==
    /\ pc = "write"
    /\ \/ stdout' = stdout + 1 /\ pc' = "ensure" /\ UNCHANGED result
       \/ UNCHANGED stdout /\ Return(Err("write stdout", <<>>))
       \/ UNCHANGED stdout /\ Return(Exit0)
    /\ UNCHANGED <<env, cli, locals, requests>>
    /\ RunIdleOthers

\* 81-82: ensure_success(response.status, &output)?; Ok(())
EnsureSuccess ==
    /\ pc = "ensure"
    /\ Return(ensure_success(Unwrap(locals.response)))
    /\ UNCHANGED <<env, cli, locals, requests, stdout>>
    /\ RunIdleOthers

\* handle_request, 311: env::var("PLANE_API_KEY").context(..)?
RequestCheckApiKey ==
    /\ pc = "request_api_key"
    /\ IF IsSome(env.api_key)
       THEN pc' = "request_api_base" /\ UNCHANGED result
       ELSE Return(Err("PLANE_API_KEY missing", <<>>))
    /\ UNCHANGED <<env, cli, locals, requests, stdout>>
    /\ RunIdleOthers

\* 312: resolve_api_base(&tree)?
RequestResolveApiBase ==
    /\ pc = "request_api_base"
    /\ LET api == resolve_api_base(Tree, env)
       IN  IF api.kind = "ok"
           THEN /\ locals' = [locals EXCEPT !.api = api]
                /\ pc' = "request_url"
                /\ UNCHANGED result
           ELSE Return(api) /\ UNCHANGED locals
    /\ UNCHANGED <<env, cli, requests, stdout>>
    /\ RunIdleOthers

\* 314-327: the method and the path of the command line, and the URL.
RequestUrl ==
    /\ pc = "request_url"
    /\ IF ~IsSome(cli.method)
       THEN Return(Err("method required", <<>>)) /\ UNCHANGED locals
       ELSE IF ~IsSome(cli.path)
       THEN Return(Err("path required", <<>>)) /\ UNCHANGED locals
       ELSE /\ locals' = [locals EXCEPT
                   !.url = Some(request_url(locals.api.val[1], locals.api.val[2],
                                            Unwrap(cli.path)))]
            /\ pc' = "request_query"
            /\ UNCHANGED result
    /\ UNCHANGED <<env, cli, requests, stdout>>
    /\ RunIdleOthers

\* 329: build_query_params(matches)?
RequestBuildQuery ==
    /\ pc = "request_query"
    /\ LET q == build_query_params(cli)
       IN  /\ locals' = [locals EXCEPT !.query = q]
           /\ IF q.kind = "ok"
              THEN pc' = "request_body" /\ UNCHANGED result
              ELSE Return(q)
    /\ UNCHANGED <<env, cli, requests, stdout>>
    /\ RunIdleOthers

\* 330: read_body(matches)?
RequestResolveBody ==
    /\ pc = "request_body"
    /\ LET b == read_body(cli.body_json, cli.body_file, RunFiles).result
       IN  /\ locals' = [locals EXCEPT !.body = b]
           /\ IF b.kind = "ok"
              THEN pc' = "request_execute" /\ UNCHANGED result
              ELSE Return(b)
    /\ UNCHANGED <<env, cli, requests, stdout>>
    /\ RunIdleOthers

\* 332-333: HttpClient::new(api_key)?, client.execute(method, ..)?
RequestExecute ==
    /\ pc = "request_execute"
    /\ \E o \in HttpOutcomes : Transport(Unwrap(cli.method), o, "request_write")
    /\ UNCHANGED <<env, cli, stdout>>
    /\ RunIdleOthers

\* 335-345: write_output(&output, ..)?, as in run().
RequestWriteOutput ==
    /\ pc = "request_write"
    /\ \/ stdout' = stdout + 1 /\ pc' = "request_ensure" /\ UNCHANGED result
       \/ UNCHANGED stdout /\ Return(Err("write stdout", <<>>))
       \/ UNCHANGED stdout /\ Return(Exit0)
    /\ UNCHANGED <<env, cli, locals, requests>>
    /\ RunIdleOthers

\* 346-347: ensure_success(response.status, &output)?; Ok(())
RequestEnsureSuccess ==
    /\ pc = "request_ensure"
    /\ Return(ensure_success(Unwrap(locals.response)))
    /\ UNCHANGED <<env, cli, locals, requests, stdout>>
    /\ RunIdleOthers

Next ==
    \/ Dispatch
    \/ CheckApiKey
    \/ ResolveApiBase
    \/ FindOp
    \/ DeprecationGate
    \/ CollectParams
    \/ ResolvePath
    \/ BuildQuery
    \/ ResolveBody
    \/ Execute
    \/ WriteOutput
    \/ EnsureSuccess
    \/ RequestCheckApiKey
    \/ RequestResolveApiBase
    \/ RequestUrl
    \/ RequestBuildQuery
    \/ RequestResolveBody
    \/ RequestExecute
    \/ RequestWriteOutput
    \/ RequestEnsureSuccess

Spec == Init /\ [][Next]_vars

----------------------------------------------------------------------------
(* What the claims about run() speak of. *)

\* The invocation is an operation command, not the raw request command.
IsOperationCommand == cli.res # RequestCommand

\* The operation the command line of an operation command names.
InvokedOp == Unwrap(find_op(Tree, cli.res, cli.op))

DeprecatedError == Err("deprecated endpoint", <<>>)

\* The errors of the steps that come before the gate.
ErrorsBeforeGate ==
    {"PLANE_API_KEY missing", "PLANE_BASE_URL empty",
     "PLANE_BASE_URL must include scheme"}

\* C8 as stated: a deprecated operation invoked without the toggle ends in
\* the deprecated-endpoint error with no request sent; with the toggle the
\* gate never rejects and parameter collection is reached.
C8_DeprecatedAlwaysNamed ==
    (IsOperationCommand /\ pc = "done") =>
        /\ (InvokedOp.deprecated /\ ~cli.include_deprecated) =>
               (result = DeprecatedError /\ requests = 0)
        /\ (InvokedOp.deprecated /\ cli.include_deprecated) =>
               (result # DeprecatedError /\ locals.params # Pending)

\* C8: a deprecated operation invoked without the toggle never sends a
\* request and never reaches parameter collection, and ends in an error:
\* the deprecated-endpoint error whenever the credential check and the
\* base-URL resolution before the gate succeeded, else the error of the
\* one that failed; with the toggle the gate never rejects, and once those
\* two steps succeeded the invocation reaches parameter collection.
C8_GateBeforeNetwork ==
    IsOperationCommand =>
    /\ (InvokedOp.deprecated /\ ~cli.include_deprecated) =>
           /\ requests = 0
           /\ locals.params = Pending
           /\ pc = "done" =>
                  /\ result.kind \in ErrorsBeforeGate \cup {DeprecatedError.kind}
                  /\ locals.api.kind = "ok" => result = DeprecatedError
    /\ cli.include_deprecated =>
           /\ result.kind # DeprecatedError.kind
           /\ (pc = "done" /\ locals.api.kind = "ok") => locals.params # Pending

C8_Witness ==
    /\ pc = "done"
    /\ IsOperationCommand
    /\ InvokedOp.deprecated /\ ~cli.include_deprecated
    /\ result = DeprecatedError
    /\ requests = 0
    /\ IsSome(env.base_url)
    /\ IsSome(cli.body_json)

\* The invocation is over and reported an error: main (13-18) prints it
\* on the error stream and exits 1.
ReportsError == pc = "done" /\ result.kind \notin {"ok", Exit0.kind}

\* C11: an invocation of an operation command or of the request command
\* that reports an error and exits non-zero, a response status outside
\* 2xx included, has written nothing to standard output.
C11_NoOutputOnError == ReportsError => stdout = 0

\* The text s begins with the text prefix, character by character.
BeginsWith(s, prefix) ==
    /\ Len(s) >= Len(prefix)
    /\ \A i \in 1..Len(prefix) : s[i] = prefix[i]

\* The origin and the base path resolve_api_base gave to handle_request.
RequestOrigin == locals.api.val[1]
RequestBasePath == locals.api.val[2]

\* The raw request command has computed its target URL.
RequestUrlSet == ~IsOperationCommand /\ IsSome(locals.url)

\* C13: the target URL of the raw request command is the supplied path
\* unchanged when it begins with http:// or https://; the origin with its
\* trailing slashes trimmed followed by the path, the base path not used,
\* when the path begins with '/'; and join_url(origin, basePath, path)
\* otherwise.
C13_RequestTarget ==
    RequestUrlSet =>
        LET p   == Unwrap(cli.path)
            url == Unwrap(locals.url)
        IN  IF BeginsWith(p, HttpScheme) \/ BeginsWith(p, HttpsScheme)
            THEN url = p
            ELSE IF BeginsWith(p, <<"/">>)
            THEN url = Stripped(RequestOrigin, IsSlash, FALSE, TRUE) \o p
            ELSE url = join_url(RequestOrigin, RequestBasePath, p)

C13_Witness ==
    /\ RequestUrlSet
    /\ EndsWithSlash(RequestOrigin)
    /\ RequestBasePath # <<>>
    /\ BeginsWith(Unwrap(cli.path), <<"/", "/">>)
    /\ Unwrap(locals.url) # RequestOrigin \o Unwrap(cli.path)
    /\ Unwrap(locals.url) #
           join_url(RequestOrigin, RequestBasePath, Unwrap(cli.path))

\* The steps that precede the request, as the inputs decide them: the
\* credential is absent, the base-URL override is unusable, the operation
\* is deprecated and the toggle unset, a Param has no value, a --query
\* pair is invalid, both body sources are given.
CredentialFails == env.api_key = None

BaseUrlFails ==
    /\ env.base_url # None
    /\ LET t == TrimmedOverride(Unwrap(env.base_url))
       IN  t = <<>> \/ ~HasSep(t)

GateFails ==
    IsOperationCommand /\ InvokedOp.deprecated /\ ~cli.include_deprecated

CollectFails ==
    /\ IsOperationCommand
    /\ \E i \in 1..Len(InvokedOp.params) :
          LET name == InvokedOp.params[i].name
          IN  /\ name \notin DOMAIN cli.args
              /\ ~(name \in WorkspaceSpellings /\ env.workspace # None)

QueryFails == \E i \in 1..Len(cli.query) : ~ValidPair(cli.query[i])

BodyConflicts == cli.body_json # None /\ cli.body_file # None

\* The errors of the steps that precede the request: the credential
\* check, the base-URL resolution, the deprecation gate, the parameter
\* collection, the path-template resolution, the query parsing and the
\* body resolution.
StepErrors ==
    ErrorsBeforeGate \cup {DeprecatedError.kind}
    \cup {"missing required argument", "invalid path template", "missing value",
          "invalid query param", ConflictError.kind, "read body file"}
    \cup InvalidJsonErrors

\* The steps handle_request takes before its request have succeeded, and
\* those that only run() takes.
RequestStepsSucceeded ==
    /\ env.api_key # None
    /\ locals.api.kind = "ok"
    /\ locals.query.kind = "ok"
    /\ locals.body.kind = "ok"

OperationStepsSucceeded ==
    /\ ~GateFails
    /\ locals.params.kind = "ok"
    /\ locals.path.kind = "ok"

\* C14 as stated: at most one request is sent, and only after the
\* credential check, the base-URL resolution, the deprecation gate, the
\* parameter collection, the path-template resolution, the query parsing
\* and the body resolution have all succeeded, in an operation command and
\* in the request command alike; when one of them fails none is sent.
C14_AllStepsBeforeRequest ==
    /\ requests <= 1
    /\ requests = 1 =>
           /\ RequestStepsSucceeded
           /\ locals.op # None
           /\ locals.params.kind = "ok"
           /\ locals.path.kind = "ok"
    /\ (pc = "done" /\ result.kind \in StepErrors) => requests = 0

\* C14: in every invocation of an operation command or of the request
\* command at most one HTTP request is sent and it is never sent again; an
\* operation command sends it only after the credential check, the
\* base-URL resolution, the deprecation gate, the parameter collection,
\* the path-template resolution, the query parsing and the body
\* resolution have all succeeded, the request command only after the
\* credential check, the base-URL resolution, the query parsing and the
\* body resolution have (it has no deprecation gate, no parameter
\* collection and no path template); when one of the steps an invocation
\* takes fails, no request is sent.
C14_RequestAfterItsSteps ==
    /\ requests <= 1
    /\ requests = 1 =>
           /\ RequestStepsSucceeded
           /\ IsOperationCommand => OperationStepsSucceeded
    /\ (pc = "done" /\ result.kind \in StepErrors) => requests = 0
    /\ (\/ CredentialFails \/ BaseUrlFails \/ GateFails \/ CollectFails
        \/ QueryFails \/ BodyConflicts) => requests = 0

C14_Witness ==
    /\ pc = "done"
    /\ ~IsOperationCommand
    /\ requests = 1
    /\ result.kind = "send request"
    /\ locals.params = Pending
    /\ cli.query # <<>>
    /\ cli.body_json # None

====
